---- MODULE Spec2Model ----
(***************************************************************************)
(* A model of the Hub of go-socket.io (src/socketio.go): request routing,  *)
(* the origin check, the session map and broadcast.  Strings are sequences *)
(* of one-character strings, so that strings.LastIndex and strings.Split   *)
(* are computed as the code computes them.                                 *)
(***************************************************************************)
EXTENDS Integers, Sequences, FiniteSets, TLC

\* ------------------------------------------------------------------ strings

\* A Go slice: nil, or the slice of the elements of a sequence.
NilSlice == [nil |-> TRUE, list |-> <<>>]

SliceOf(l) == [nil |-> FALSE, list |-> l]

MaxOf(S) == CHOOSE x \in S : \A y \in S : y <= x

MinOf(S) == CHOOSE x \in S : \A y \in S : x <= y

\* Go's s[i:j] (0-based, j exclusive).
Slice(s, i, j) == SubSeq(s, i + 1, j)

\* The 0-based indices at which sub occurs in s.
Occurrences(s, sub) ==
    {i \in 0..(Len(s) - Len(sub)) : Slice(s, i, i + Len(sub)) = sub}

\* strings.LastIndex: the index of the last occurrence of sub in s, or -1.
LastIndex(s, sub) ==
    LET occ == Occurrences(s, sub) IN IF occ = {} THEN -1 ELSE MaxOf(occ)

\* strings.Index: the index of the first occurrence of sub in s, or -1.
Index(s, sub) ==
    LET occ == Occurrences(s, sub) IN IF occ = {} THEN -1 ELSE MinOf(occ)

\* strings.Split(s, sep, n) for a non-empty sep: all the substrings between
\* separators when n < 0, at most n substrings (the last one the unsplit
\* remainder) when n > 0.
RECURSIVE Split(_, _, _)
Split(s, sep, n) ==
    LET i == Index(s, sep)
    IN  IF n = 1 \/ i < 0
        THEN <<s>>
        ELSE <<Slice(s, 0, i)>> \o Split(Slice(s, i + Len(sep), Len(s)), sep, n - 1)

Slash == <<"/">>

Colon == <<":">>

Star == <<"*">>

\* ------------------------------------------------------------ verifyOrigin

\* The outcome of http.ParseURL on an Origin header: a parse error, or the
\* scheme and the host (the host with its port, if the origin names one).
ParsedURL(err, scheme, host) == [err |-> err, Scheme |-> scheme, Host |-> host]

P80 == <<"8", "0">>

P443 == <<"4", "4", "3">>

\* One pass of the loop body of verifyOrigin for the entry o: TRUE when the
\* body returns (o, true).
EntryAccepts(o, url) ==
    LET origin == Split(o, Colon, 2)
        host == Split(url.Host, Colon, 2)
    IN  /\ (origin[1] = Star \/ origin[1] = host[1])
        /\ \/ Len(origin) < 2
           \/ origin[2] = Star
           \/ /\ Len(host) < 2
              /\ \/ url.Scheme \in {"http", "ws"} /\ origin[2] = P80
                 \/ url.Scheme \in {"https", "wss"} /\ origin[2] = P443
           \/ /\ Len(host) >= 2
              /\ origin[2] = host[2]

\* verifyLoop with a return of ("", false) as soon as an entry matches the
\* host and fails on the port.
RECURSIVE verifyLoopStopsAtPort(_, _, _)
verifyLoopStopsAtPort(Origins, url, i) ==
    IF i > Len(Origins)
    THEN [o |-> <<>>, ok |-> FALSE]
    ELSE IF EntryAccepts(Origins[i], url)
         THEN [o |-> Origins[i], ok |-> TRUE]
         ELSE IF Split(Origins[i], Colon, 2)[1] \in {Star, Split(url.Host, Colon, 2)[1]}
              THEN [o |-> <<>>, ok |-> FALSE]
              ELSE verifyLoopStopsAtPort(Origins, url, i + 1)

\* The for loop of verifyOrigin from entry i on: the first accepting entry.
RECURSIVE verifyLoop(_, _, _)
verifyLoop(Origins, url, i) ==
    IF i > Len(Origins)
    THEN [o |-> <<>>, ok |-> FALSE]
    ELSE IF EntryAccepts(Origins[i], url)
         THEN [o |-> Origins[i], ok |-> TRUE]
         ELSE verifyLoop(Origins, url, i + 1)

\* SocketIO.verifyOrigin, with config.Origins as Origins and the parse of
\* reqOrigin as url.
verifyOrigin(Origins, url) ==
    IF Origins.nil
    THEN [o |-> <<>>, ok |-> FALSE]
    ELSE IF url.err \/ url.Host = <<>>
         THEN [o |-> <<>>, ok |-> FALSE]
         ELSE verifyLoop(Origins.list, url, 1)

\* An allow-list entry host[:port] and a request origin scheme://host[:port],
\* as the strings the code is given.  NoPort: the port is left out.
NoPort == <<>>

HostPort(h, p) == IF p = NoPort THEN h ELSE h \o Colon \o p

EntryString(e) == HostPort(e.h, e.p)

OriginURL(x) == ParsedURL(x.err, x.scheme, HostPort(x.h, x.p))

\* The entries and the origins the origin check is tried on.
Entries == [h : {Star, <<"a">>}, p : {NoPort, Star, P80, P443}]

TestOrigins ==
    [err : {FALSE}, scheme : {"http", "https", "ws", "wss", "ftp"},
     h : {<<"a">>, <<"b">>, <<>>}, p : {NoPort, P80, P443, <<"8">>}]
    \cup {[err |-> TRUE, scheme |-> "", h |-> <<>>, p |-> NoPort]}

NoOrigin == [err |-> TRUE, scheme |-> "", h |-> <<>>, p |-> NoPort]

NoResult == [set |-> FALSE, o |-> <<>>, ok |-> FALSE]

\* ------------------------------------------------------------------ bounds

\* How many Connections newConn may create in a run.
MaxConns == 2

\* How many requests may be in handle at once in the concurrent runs.
MaxHandlers == 2

\* The longest allow-list the origin check is tried on.
MaxOrigins == 2

\* How many messages are passed to Send of one Connection.
MaxSends == 3

\* How many writes of one Connection fail.
MaxFails == 2

\* How many requests, each with its Socket, attach to one Connection.
MaxSockets == 4

\* ------------------------------------------------------------ configuration

\* config.Transports, and Transport.Resource of each.
Transports == <<"T1", "T2">>

Resource(t) == IF t = "T1" THEN <<"w", "s">> ELSE <<"x", "p">>

\* config.Origins of the Hub.
HubOrigins == SliceOf(<< <<"a">> \o Colon \o P80 >>)

\* The session ids newConn may mint; one of them contains a resource name.
IDPool == {<<"a">>, <<"a", "w", "s">>, <<"b">>}

NoConn == <<>>

\* The resources Mux is called with: in the routing runs, and in the
\* concurrent runs.
MuxResources == {<<>>, <<"s">>, Slash, <<"/", "w", "s", "/">>}

ConcMuxResources == {<<"s">>, Slash}

\* ------------------------------------------------------------------- state

VARIABLES
    muxed,        \* SocketIO.muxed
    handlers,     \* the patterns registered on the ServeMux, each with its transport
    sessions,     \* SocketIO.sessions: SessionID -> Conn
    cstate,       \* each Connection's lifecycle state ("NONE": not created)
    pendingDisc,  \* Connections that are DISCONNECTED and about to call onDisconnect
    hubDisc,      \* Connections for which onDisconnect has run
    req,          \* the requests inside handle, per handler goroutine
    last,         \* the answer of the request that completed in the last step
    bc,           \* the goroutine inside BroadcastExcept
    voList,       \* origin check: the allow-list tried
    voUrl,        \* origin check: the parsed request origin
    voRes,        \* origin check: what verifyOrigin returned
    cq,           \* one Connection: its outbound queue
    csock,        \* one Connection: whether a Socket is attached
    cinflight,    \* one Connection: the message the write pump is writing (0: none)
    cwritten,     \* one Connection: the messages written to its Sockets, in order
    csent,        \* one Connection: the messages Send has taken, in order
    cdisc,        \* one Connection: its disconnected flag
    cfails,       \* one Connection: how many of its writes have failed
    callbacks,    \* SocketIO.callbacks: the functions the user installed
    ret,          \* what the last call of Mux, OnConnect, OnDisconnect or OnMessage returned
    wlock,        \* the goroutine that holds SocketIO.mutex for writing
    discCb,       \* Connections whose onDisconnect is between its Unlock and the callback
    fired,        \* how often the on-connect and on-disconnect callbacks were invoked, per Connection
    timedOut,     \* Connections that the disconnect-timeout made DISCONNECTED
    fpOrigins,    \* policy listener: config.Origins of its Hub
    fpPolicy,     \* policy listener: the document generatePolicyFile returned
    fpPc,         \* policy listener: where the goroutine of the accepted connection is
    fpIn,         \* policy listener: the bytes the client sends
    fpHeld,       \* policy listener: the client keeps its connection open after them
    fpNw,         \* policy listener: nw, how much of the document is written
    fpOut,        \* policy listener: what the client has received
    asocket,      \* attachment: the Connection's attached Socket (0: none)
    astate,       \* attachment: each Socket's state
    amutex,       \* attachment: the Socket whose request holds the attachment mutex (0: free)
    apumps        \* attachment: the Sockets whose read and write pumps still run

flashVars == <<fpOrigins, fpPolicy, fpPc, fpIn, fpHeld, fpNw, fpOut>>

attachVars == <<asocket, astate, amutex, apumps>>

auxVars == <<flashVars, attachVars>>

cbVars == <<callbacks, ret, wlock, discCb, fired, timedOut>>

hubVars == <<muxed, handlers, sessions, cstate, pendingDisc, hubDisc, req, last, bc,
             callbacks, ret, wlock, discCb, fired, timedOut>>

voVars == <<voList, voUrl, voRes>>

sendVars == <<cq, csock, cinflight, cwritten, csent, cdisc, cfails>>

vars == <<muxed, handlers, sessions, cstate, pendingDisc, hubDisc, req, last, bc,
          voList, voUrl, voRes, cq, csock, cinflight, cwritten, csent, cdisc,
          cfails, callbacks, ret, wlock, discCb, fired, timedOut,
          fpOrigins, fpPolicy, fpPc, fpIn, fpHeld, fpNw, fpOut,
          asocket, astate, amutex, apumps>>

Slots == 1..MaxHandlers

\* The routing runs take one request at a time, of every shape; the
\* concurrent runs take several at a time, of few shapes.
RouteSlots == {1}

\* ------------------------------------------------------------------ requests

NoHeader == [present |-> FALSE, url |-> ParsedURL(TRUE, "", <<>>)]

Header(url) == [present |-> TRUE, url |-> url]

\* The Origin headers of the requests: none, one the allow-list admits (its
\* port inferred from the scheme), one it does not.
OriginHeaders ==
    {NoHeader, Header(ParsedURL(FALSE, "http", <<"a">>)),
     Header(ParsedURL(FALSE, "http", <<"b">>))}

Methods == {"GET", "POST", "OPTIONS", "PUT"}

Unknown == <<"z">>

\* The path components a client puts after the transport resource.
Tails ==
    {<<>>}
    \cup {<<id>> : id \in IDPool \cup {Unknown}}
    \cup {<<id, Unknown>> : id \in IDPool}
    \cup {<<Unknown, Unknown, Unknown>>}

\* A client's request: its method, its Origin header, and its path as the
\* transport, the components after its resource and a trailing slash.
Request(method, origin, t, comps, slash) ==
    [method |-> method, origin |-> origin, t |-> t, comps |-> comps,
     slash |-> slash]

\* The requests of the routing runs: every method and Origin header on a few
\* paths, and every path as a GET without and a POST with an Origin header.
Requests ==
    {Request(m, o, Transports[1], comps, FALSE) :
        m \in Methods, o \in OriginHeaders, comps \in {<<>>, <<Unknown>>}}
    \cup {Request(mo[1], mo[2], Transports[i], comps, slash) :
        mo \in {<<"GET", NoHeader>>,
                 <<"POST", Header(ParsedURL(FALSE, "http", <<"a">>))>>},
        i \in 1..Len(Transports), comps \in Tails, slash \in BOOLEAN}

\* The requests of the concurrent runs: a GET for a new Connection and a GET
\* for each session id.
ConcRequests ==
    {Request("GET", NoHeader, Transports[2], comps, FALSE) :
        comps \in {<<>>} \cup {<<id>> : id \in IDPool}}

RECURSIVE JoinTail(_)
JoinTail(comps) ==
    IF comps = <<>> THEN <<>> ELSE Slash \o Head(comps) \o JoinTail(Tail(comps))

\* The URL path of a request for transport t under the prefix R.
PathOf(R, t, comps, slash) ==
    R \o Resource(t) \o JoinTail(comps) \o (IF slash THEN Slash ELSE <<>>)

NoHeaders == [AllowOrigin |-> NoHeader, AllowCredentials |-> "", AllowMethods |-> ""]

\* The three headers with POST left out of the allowed methods.
CorsHeadersGetOnly(origin) ==
    [AllowOrigin |-> origin, AllowCredentials |-> "true", AllowMethods |-> "GET"]

\* The three headers set at lines 243-245.
CorsHeaders(origin) ==
    [AllowOrigin |-> origin, AllowCredentials |-> "true", AllowMethods |-> "POST, GET"]

\* A request inside handle: what the client sent (method, origin, path), and
\* for the properties the transport reqT and the session id addr the client
\* built the path from, whether addr was in the session map when the request
\* arrived (known) and whether onDisconnect had run for it by then (late).
NoRequest == [method |-> "", origin |-> NoHeader, path |-> <<>>, reqT |-> "",
              addr |-> NoConn, known |-> FALSE, late |-> FALSE]

IdleReq == [pc |-> "idle", rq |-> NoRequest, t |-> "", c |-> NoConn,
            headers |-> NoHeaders, created |-> FALSE, lookedUp |-> FALSE]

\* No user callback was invoked.
NoCb == [kind |-> "none", c |-> NoConn, locked |-> FALSE, inMap |-> FALSE]

NoResp == [kind |-> "none", rq |-> NoRequest, t |-> "", status |-> 0,
           headers |-> NoHeaders, created |-> FALSE, lookedUp |-> FALSE,
           handled |-> NoConn, inserted |-> FALSE, cb |-> NoCb]

Resp(rq, t, status, headers, created, lookedUp, handled, inserted) ==
    [kind |-> "resp", rq |-> rq, t |-> t, status |-> status, headers |-> headers,
     created |-> created, lookedUp |-> lookedUp, handled |-> handled,
     inserted |-> inserted, cb |-> NoCb]

\* --------------------------------------------------------------------- Mux

\* The two patterns Mux registers for each transport (lines 159-168).
MuxPatterns(resource) ==
    UNION {{[pattern |-> resource \o Resource(Transports[i]) \o Slash,
             t |-> Transports[i]],
            [pattern |-> resource \o Resource(Transports[i]),
             t |-> Transports[i]]} : i \in 1..Len(Transports)}

\* Mux without the test of the resource's last character.
MuxErrorNoSlashTest(resource) ==
    IF muxed THEN "Mux: already muxed" ELSE ""

\* The error Mux returns for resource ("": none).
MuxError(resource) ==
    IF muxed
    THEN "Mux: already muxed"
    ELSE IF resource = <<>> \/ resource[Len(resource)] # "/"
         THEN "Mux: resource must end with a slash"
         ELSE ""

\* What a call of the Hub's configuration methods returned: the method and
\* its os.Error ("": nil).
Ret(op, err) == [op |-> op, err |-> err]

NoRet == Ret("", "")

\* SocketIO.Mux(resource, mux).
Mux(resource) ==
    /\ IF MuxError(resource) = ""
       THEN /\ handlers' = handlers \cup MuxPatterns(resource)
            /\ muxed' = TRUE
       ELSE UNCHANGED <<handlers, muxed>>
    /\ ret' = Ret("Mux", MuxError(resource))
    /\ last' = NoResp
    /\ UNCHANGED <<sessions, cstate, pendingDisc, hubDisc, req, bc>>
    /\ UNCHANGED <<callbacks, wlock, discCb, fired, timedOut>>
    /\ UNCHANGED <<auxVars, voVars, sendVars>>

\* ------------------------------------------- OnConnect, OnDisconnect, OnMessage

\* The functions a user installs; "nil" is no function.
Funcs == {"f", "g"}

NoCallbacks == [onConnect |-> "nil", onDisconnect |-> "nil", onMessage |-> "nil"]

\* The three methods, by the field of SocketIO.callbacks each one sets.
Setters == [OnConnect |-> "onConnect", OnDisconnect |-> "onDisconnect",
            OnMessage |-> "onMessage"]

\* The three methods with the test of sio.muxed left out.
OnErrorNever(op) == ""

\* The error OnConnect, OnDisconnect and OnMessage return ("": none), lines
\* 177-179, 188-190 and 199-201.
OnError(op) ==
    IF muxed
    THEN CASE op = "OnConnect" -> "OnConnect: already muxed"
           [] op = "OnDisconnect" -> "OnDisconnect: already muxed"
           [] op = "OnMessage" -> "OnMessage: already muxed"
    ELSE ""

\* The body the three methods share: the error when muxed, else the store.
SetCallback(op, f) ==
    /\ callbacks' = IF OnError(op) = ""
                    THEN [callbacks EXCEPT ![Setters[op]] = f]
                    ELSE callbacks
    /\ ret' = Ret(op, OnError(op))
    /\ last' = NoResp
    /\ UNCHANGED <<muxed, handlers, sessions, cstate, pendingDisc, hubDisc, req, bc>>
    /\ UNCHANGED <<wlock, discCb, fired, timedOut>>
    /\ UNCHANGED <<auxVars, voVars, sendVars>>

\* SocketIO.OnConnect(f).
OnConnect(f) == SetCallback("OnConnect", f)

\* SocketIO.OnDisconnect(f).
OnDisconnect(f) == SetCallback("OnDisconnect", f)

\* SocketIO.OnMessage(f).
OnMessage(f) == SetCallback("OnMessage", f)

\* http.ServeMux: a pattern ending in a slash matches every path it is a prefix
\* of, any other pattern matches the path equal to it; the longest pattern wins.
Matches(pattern, path) ==
    IF pattern[Len(pattern)] = "/"
    THEN Len(path) >= Len(pattern) /\ SubSeq(path, 1, Len(pattern)) = pattern
    ELSE path = pattern

Matching(path) == {h \in handlers : Matches(h.pattern, path)}

Matched(path) ==
    LET m == Matching(path)
    IN  CHOOSE h \in m : \A g \in m : Len(g.pattern) <= Len(h.pattern)

\* ------------------------------------------------------------------ handle

\* BroadcastExcept holds the read lock from its first line to its return.
RLocked == bc.pc = "iter"

\* The goroutines that take the write lock: the handler in slot s, and the
\* goroutine of the Connection c that calls onDisconnect (named by c).
NoHolder == <<>>

Handler(s) == <<"#", ToString(s)>>

WLocked == wlock # NoHolder

\* Lines 262-269: the path from the last occurrence of the transport's resource
\* on, without a trailing slash, split at the slashes.
parts(path, t) ==
    LET i == LastIndex(path, Resource(t))
        pathLen == IF path[Len(path)] = "/" THEN Len(path) - 1 ELSE Len(path)
    IN  IF i >= 0 THEN Split(Slice(path, i, pathLen), Slash, -1) ELSE <<>>

\* A lookup that finds a Connection for every session id.
GetConnFindsAll(sessionid) == sessionid

\* SocketIO.GetConn: sessions[sessionid], nil when there is none.
GetConn(sessionid) ==
    IF sessionid \in DOMAIN sessions THEN sessions[sessionid] ELSE NoConn

\* The origin check with the test of ok the wrong way round.
OriginRejectedInverted(origin) ==
    origin.present /\ verifyOrigin(HubOrigins, origin.url).ok

\* The origin check with a request without an Origin header turned away too.
OriginRejectedIfMissing(origin) ==
    ~origin.present \/ ~verifyOrigin(HubOrigins, origin.url).ok

\* The origin check of lines 236-241: TRUE when the request is answered 401.
OriginRejected(origin) ==
    origin.present /\ ~verifyOrigin(HubOrigins, origin.url).ok

\* The headers of lines 243-245, set only for a request with an Origin header.
HeadersFor(origin) ==
    IF origin.present THEN CorsHeaders(origin) ELSE NoHeaders

Created == {id \in IDPool : cstate[id] # "NONE"}

\* handle returns: the answer is the one of this step.
Answer(resp) ==
    /\ last' = resp
    /\ UNCHANGED <<muxed, handlers, sessions, cstate, pendingDisc, hubDisc, req, bc>>
    /\ UNCHANGED <<auxVars, voVars, sendVars, cbVars>>

\* handle goes on to c.handle with the Connection c.
Dispatch(s, rq, t, c, created, lookedUp) ==
    /\ req' = [req EXCEPT ![s] =
                  [pc |-> "dispatch", rq |-> rq, t |-> t, c |-> c,
                   headers |-> HeadersFor(rq.origin), created |-> created,
                   lookedUp |-> lookedUp]]
    /\ last' = NoResp
    /\ UNCHANGED <<muxed, handlers, sessions, pendingDisc, hubDisc, bc>>
    /\ UNCHANGED <<auxVars, voVars, sendVars, cbVars>>

\* SocketIO.handle from its first line to the call of c.handle (lines 227-294),
\* for the request rq that the ServeMux routed to the handler of transport t.
handleRoute(s, rq, t) ==
    LET ps == parts(rq.path, t) IN
    IF OriginRejected(rq.origin)
    THEN Answer(Resp(rq, t, 401, NoHeaders, FALSE, FALSE, NoConn, FALSE))
    ELSE IF rq.method = "OPTIONS"
    THEN Answer(Resp(rq, t, 200, HeadersFor(rq.origin), FALSE, FALSE, NoConn, FALSE))
    ELSE IF rq.method \notin {"GET", "POST"}
    THEN Answer(Resp(rq, t, 401, HeadersFor(rq.origin), FALSE, FALSE, NoConn, FALSE))
    ELSE IF Len(ps) = 1
    THEN \* newConn: an error, or a Connection with a fresh session id
         \/ Answer(Resp(rq, t, 500, HeadersFor(rq.origin), FALSE, FALSE, NoConn, FALSE))
         \/ /\ Cardinality(Created) < MaxConns
            /\ \E id \in IDPool \ Created :
                  /\ cstate' = [cstate EXCEPT ![id] = "HANDSHAKING"]
                  /\ Dispatch(s, rq, t, id, TRUE, FALSE)
    ELSE IF Len(ps) \in {2, 3}
    THEN IF GetConn(ps[2]) = NoConn
         THEN Answer(Resp(rq, t, 400, HeadersFor(rq.origin), FALSE, TRUE, NoConn, FALSE))
         ELSE /\ Dispatch(s, rq, t, GetConn(ps[2]), FALSE, TRUE)
              /\ UNCHANGED cstate
    ELSE Answer(Resp(rq, t, 400, HeadersFor(rq.origin), FALSE, FALSE, NoConn, FALSE))

\* The resources under which Mux has registered the handlers.
Prefixes == {R \in MuxResources : MuxPatterns(R) \subseteq handlers}

\* A request arrives: the ServeMux routes it to the handler its path matches,
\* and handle runs up to c.handle.  The path is R + r + "/" + addr, with at
\* most one more component, when the client addresses the session addr.
handle(s, R, r) ==
    /\ req[s].pc = "idle"
    /\ last.kind = "none"
    /\ ~RLocked
    /\ ~WLocked
    /\ LET path == PathOf(R, r.t, r.comps, r.slash) IN
       /\ Matching(path) # {}
       /\ handleRoute(s,
                      [method |-> r.method, origin |-> r.origin, path |-> path,
                       reqT |-> r.t,
                       addr |-> IF Len(r.comps) \in {1, 2} THEN r.comps[1] ELSE NoConn,
                       known |-> Len(r.comps) \in {1, 2}
                                 /\ r.comps[1] \in DOMAIN sessions,
                       late |-> Len(r.comps) \in {1, 2} /\ r.comps[1] \in hubDisc],
                      Matched(path).t)

\* last is a history variable, the answer of the handle that returned in the
\* last step: the answer goes out to the client, and is forgotten.
Respond ==
    /\ last.kind = "resp"
    /\ last' = NoResp
    /\ UNCHANGED <<muxed, handlers, sessions, cstate, pendingDisc, hubDisc, req, bc>>
    /\ UNCHANGED <<auxVars, voVars, sendVars, cbVars>>

\* ------------------------------------------------- Connection and callbacks

\* handle's last lines (296-300): c.handle returned err, and the answer.
Finish(s, err, inserted) ==
    /\ last' = Resp(req[s].rq, req[s].t, IF err THEN 401 ELSE 0, req[s].headers,
                    req[s].created, req[s].lookedUp, req[s].c, inserted)
    /\ req' = [req EXCEPT ![s] = IdleReq]

\* Conn.handle(t, w, req): binds the exchange to the Connection through a
\* fresh Socket.  It fails on a DISCONNECTED Connection and when accept
\* fails; the first successful accept goes on to the Hub's onConnect.
ConnHandle(s) ==
    /\ req[s].pc = "dispatch"
    /\ \/ /\ Finish(s, TRUE, FALSE)
          /\ UNCHANGED cstate
       \/ /\ cstate[req[s].c] = "HANDSHAKING"
          /\ req' = [req EXCEPT ![s].pc = "onConnect"]
          /\ last' = NoResp
          /\ UNCHANGED cstate
       \/ /\ cstate[req[s].c] \in {"ACTIVE", "DETACHED"}
          /\ cstate' = [cstate EXCEPT ![req[s].c] = "ACTIVE"]
          /\ Finish(s, FALSE, FALSE)
    /\ UNCHANGED <<muxed, handlers, sessions, pendingDisc, hubDisc, bc>>
    /\ UNCHANGED <<auxVars, voVars, sendVars, cbVars>>

\* onConnect without the store into the map.
onConnectMapForgets(c) == sessions

\* The session map after onConnect(c): sessions[c.sessionid] = c (line 308).
onConnectMap(c) ==
    [k \in DOMAIN sessions \cup {c} |-> IF k = c THEN c ELSE sessions[k]]

\* The lock with the Unlock deferred to the return, after the callback.
AfterUnlockDeferred(g) == g

\* Who holds the write lock after the Unlock of lines 310 and 324: nobody.
AfterUnlock(g) == NoHolder

\* The user callback f invoked for the Connection c by the goroutine g, as
\* the history of the step records it: whether g held the write lock, and
\* whether c was in the session map.  Nothing is invoked when f is nil (lines
\* 312, 326 and 334).
Callback(kind, f, c, g) ==
    IF f = "nil"
    THEN NoCb
    ELSE [kind |-> kind, c |-> c, locked |-> wlock = g, inMap |-> GetConn(c) # NoConn]

NoneFired == [connect |-> 0, disconnect |-> 0]

\* A callback that is invoked twice where the code invokes it once.
FireTwice(kind, f, c) ==
    IF f = "nil" THEN fired ELSE [fired EXCEPT ![c][kind] = @ + 2]

\* fired after the on-connect or on-disconnect callback f was invoked for c.
Fire(kind, f, c) ==
    IF f = "nil" THEN fired ELSE [fired EXCEPT ![c][kind] = @ + 1]

\* SocketIO.onConnect(c), called by the Connection when it is established:
\* the store under the write lock (lines 307-310), and with no callback
\* installed (line 312) the return through c.handle to handle.
onConnect(s) ==
    /\ req[s].pc = "onConnect"
    /\ ~RLocked
    /\ ~WLocked
    /\ sessions' = onConnectMap(req[s].c)
    /\ wlock' = AfterUnlock(Handler(s))
    /\ cstate' = [cstate EXCEPT ![req[s].c] = "ACTIVE"]
    /\ IF callbacks.onConnect = "nil"
       THEN Finish(s, FALSE, TRUE)
       ELSE /\ req' = [req EXCEPT ![s].pc = "onConnectCallback"]
            /\ last' = NoResp
    /\ UNCHANGED <<muxed, handlers, pendingDisc, hubDisc, bc>>
    /\ UNCHANGED <<callbacks, ret, discCb, fired, timedOut>>
    /\ UNCHANGED <<auxVars, voVars, sendVars>>

\* The rest of onConnect: the user's callback (lines 312-314), and the return
\* through c.handle to handle.
onConnectCallback(s) ==
    /\ req[s].pc = "onConnectCallback"
    /\ callbacks.onConnect # "nil"
    /\ fired' = Fire("connect", callbacks.onConnect, req[s].c)
    /\ last' = [Resp(req[s].rq, req[s].t, 0, req[s].headers, req[s].created,
                     req[s].lookedUp, req[s].c, TRUE)
                EXCEPT !.cb = Callback("connect", callbacks.onConnect, req[s].c,
                                       Handler(s))]
    /\ req' = [req EXCEPT ![s] = IdleReq]
    /\ UNCHANGED <<muxed, handlers, sessions, cstate, pendingDisc, hubDisc, bc>>
    /\ UNCHANGED <<callbacks, ret, wlock, discCb, timedOut>>
    /\ UNCHANGED <<auxVars, voVars, sendVars>>

\* The attached Socket's exchange ends: ACTIVE -> DETACHED.
Detach(c) ==
    /\ cstate[c] = "ACTIVE"
    /\ cstate' = [cstate EXCEPT ![c] = "DETACHED"]
    /\ last' = NoResp
    /\ UNCHANGED <<muxed, handlers, sessions, pendingDisc, hubDisc, req, bc>>
    /\ UNCHANGED <<auxVars, voVars, sendVars, cbVars>>

\* The Connection disconnects (timeout, disconnect message, codec error or
\* the user's Disconnect): it becomes DISCONNECTED and calls onDisconnect.
Disconnect(c) ==
    /\ cstate[c] \in {"ACTIVE", "DETACHED"}
    /\ cstate' = [cstate EXCEPT ![c] = "DISCONNECTED"]
    /\ pendingDisc' = pendingDisc \cup {c}
    /\ last' = NoResp
    /\ UNCHANGED <<muxed, handlers, sessions, hubDisc, req, bc>>
    /\ UNCHANGED <<auxVars, voVars, sendVars, cbVars>>

\* The disconnect-timeout elapses while the Connection is DETACHED: it becomes
\* DISCONNECTED and calls onDisconnect.
Timeout(c) ==
    /\ cstate[c] = "DETACHED"
    /\ cstate' = [cstate EXCEPT ![c] = "DISCONNECTED"]
    /\ pendingDisc' = pendingDisc \cup {c}
    /\ timedOut' = timedOut \cup {c}
    /\ last' = NoResp
    /\ UNCHANGED <<muxed, handlers, sessions, hubDisc, req, bc>>
    /\ UNCHANGED <<callbacks, ret, wlock, discCb, fired>>
    /\ UNCHANGED <<auxVars, voVars, sendVars>>

\* onDisconnect without the removal from the map.
onDisconnectMapKeeps(c) == sessions

\* The session map after onDisconnect(c): sessions[c.sessionid] = nil, false
\* (line 321).
onDisconnectMap(c) ==
    [k \in DOMAIN sessions \ {c} |-> sessions[k]]

\* SocketIO.onDisconnect(c), called by the Connection that disconnected: the
\* removal under the write lock (lines 320-324), and with no callback
\* installed (line 326) the return.
onDisconnect(c) ==
    /\ c \in pendingDisc
    /\ ~RLocked
    /\ ~WLocked
    /\ sessions' = onDisconnectMap(c)
    /\ wlock' = AfterUnlock(c)
    /\ pendingDisc' = pendingDisc \ {c}
    /\ hubDisc' = hubDisc \cup {c}
    /\ discCb' = IF callbacks.onDisconnect = "nil" THEN discCb ELSE discCb \cup {c}
    /\ last' = NoResp
    /\ UNCHANGED <<muxed, handlers, cstate, req, bc>>
    /\ UNCHANGED <<callbacks, ret, fired, timedOut>>
    /\ UNCHANGED <<auxVars, voVars, sendVars>>

\* The rest of onDisconnect: the user's callback (lines 326-328).
onDisconnectCallback(c) ==
    /\ c \in discCb
    /\ discCb' = discCb \ {c}
    /\ fired' = Fire("disconnect", callbacks.onDisconnect, c)
    /\ last' = [NoResp EXCEPT !.cb = Callback("disconnect", callbacks.onDisconnect, c, c)]
    /\ UNCHANGED <<muxed, handlers, sessions, cstate, pendingDisc, hubDisc, req, bc>>
    /\ UNCHANGED <<callbacks, ret, wlock, timedOut>>
    /\ UNCHANGED <<auxVars, voVars, sendVars>>

\* SocketIO.onMessage(c, msg), called by the read pump of the Connection c
\* for a message that arrived: the user's callback, no lock taken (lines
\* 333-337).
onMessage(c) ==
    /\ cstate[c] = "ACTIVE"
    /\ callbacks.onMessage # "nil"
    /\ last' = [NoResp EXCEPT !.cb = Callback("message", callbacks.onMessage, c, c)]
    /\ UNCHANGED <<muxed, handlers, sessions, cstate, pendingDisc, hubDisc, req, bc>>
    /\ UNCHANGED <<callbacks, ret, wlock, discCb, fired, timedOut>>
    /\ UNCHANGED <<auxVars, voVars, sendVars>>

\* --------------------------------------------------------------- Broadcast

IdleBc == [pc |-> "idle", except |-> NoConn, visited |-> {}, snap |-> {},
           sends |-> [c \in IDPool |-> 0]]

\* The loop without the test of line 128.
ShouldSendAll(v, c) == TRUE

\* Line 128: whether the Connection v is sent to when c is the one excepted.
ShouldSend(v, c) == v # c

\* BroadcastExcept(c, data) takes the read lock (line 124); Broadcast(data)
\* is BroadcastExcept(nil, data).  snap is the session map at that moment.
BroadcastExcept(c) ==
    /\ bc.pc = "idle"
    /\ ~WLocked
    /\ bc' = [pc |-> "iter", except |-> c, visited |-> {},
              snap |-> {sessions[k] : k \in DOMAIN sessions},
              sends |-> [v \in IDPool |-> 0]]
    /\ last' = NoResp
    /\ UNCHANGED <<muxed, handlers, sessions, cstate, pendingDisc, hubDisc, req>>
    /\ UNCHANGED <<auxVars, voVars, sendVars, cbVars>>

\* One round of the range loop (lines 127-131): a key not yet visited, and
\* v.Send(data) unless v is the excepted Connection.
BroadcastStep ==
    /\ bc.pc = "iter"
    /\ \E k \in DOMAIN sessions \ bc.visited :
          bc' = [bc EXCEPT !.visited = @ \cup {k},
                           !.sends[sessions[k]] =
                               IF ShouldSend(sessions[k], bc.except) THEN @ + 1 ELSE @]
    /\ last' = NoResp
    /\ UNCHANGED <<muxed, handlers, sessions, cstate, pendingDisc, hubDisc, req>>
    /\ UNCHANGED <<auxVars, voVars, sendVars, cbVars>>

\* The loop is over: the deferred RUnlock (line 125).
BroadcastReturn ==
    /\ bc.pc = "iter"
    /\ DOMAIN sessions \ bc.visited = {}
    /\ bc' = IdleBc
    /\ last' = NoResp
    /\ UNCHANGED <<muxed, handlers, sessions, cstate, pendingDisc, hubDisc, req>>
    /\ UNCHANGED <<auxVars, voVars, sendVars, cbVars>>

\* ------------------------------------------- one Connection's outbound queue

\* A Connection once established: a Socket attached, nothing queued.
InitSend ==
    /\ cq = <<>>
    /\ csock = TRUE
    /\ cinflight = 0
    /\ cwritten = <<>>
    /\ csent = <<>>
    /\ cdisc = FALSE
    /\ cfails = 0

\* A failed write that puts the message back at the tail of the queue.
RequeueAtTail(m, q) == Append(q, m)

\* The queue after a failed write gave the message m back.
Requeue(m, q) == <<m>> \o q

\* Conn.Send(data): the message goes to the tail of the queue; an error, and
\* nothing else, on a DISCONNECTED Connection.  The messages are numbered in
\* the order of the calls.
Send ==
    /\ Len(csent) < MaxSends
    /\ IF cdisc
       THEN UNCHANGED <<cq, csent>>
       ELSE /\ cq' = Append(cq, Len(csent) + 1)
            /\ csent' = Append(csent, Len(csent) + 1)
    /\ UNCHANGED <<csock, cinflight, cwritten, cdisc, cfails>>
    /\ UNCHANGED <<hubVars, voVars, auxVars>>

\* The write pump takes the message at the head of the queue to write it to
\* the attached Socket.
PumpPop ==
    /\ ~cdisc
    /\ csock
    /\ cinflight = 0
    /\ cq # <<>>
    /\ cinflight' = Head(cq)
    /\ cq' = Tail(cq)
    /\ UNCHANGED <<csock, cwritten, csent, cdisc, cfails>>
    /\ UNCHANGED <<hubVars, voVars, auxVars>>

\* The Socket wrote the whole message.
WriteDone ==
    /\ cinflight # 0
    /\ csock
    /\ cwritten' = Append(cwritten, cinflight)
    /\ cinflight' = 0
    /\ UNCHANGED <<cq, csock, csent, cdisc, cfails>>
    /\ UNCHANGED <<hubVars, voVars, auxVars>>

\* The write failed (an error, a partial write, the Socket closed under it):
\* the message goes back to the head of the queue, the pump ends and the
\* Connection is DETACHED.
WriteFailed ==
    /\ cinflight # 0
    /\ cfails < MaxFails
    /\ cq' = Requeue(cinflight, cq)
    /\ cinflight' = 0
    /\ csock' = FALSE
    /\ cfails' = cfails + 1
    /\ UNCHANGED <<cwritten, csent, cdisc>>
    /\ UNCHANGED <<hubVars, voVars, auxVars>>

\* The attached Socket's exchange ends.
SocketDetach ==
    /\ csock
    /\ csock' = FALSE
    /\ UNCHANGED <<cq, cinflight, cwritten, csent, cdisc, cfails>>
    /\ UNCHANGED <<hubVars, voVars, auxVars>>

\* A request for the session attaches a fresh Socket, once the pumps of the
\* prior one have ended.
SocketAttach ==
    /\ ~cdisc
    /\ ~csock
    /\ cinflight = 0
    /\ csock' = TRUE
    /\ UNCHANGED <<cq, cinflight, cwritten, csent, cdisc, cfails>>
    /\ UNCHANGED <<hubVars, voVars, auxVars>>

\* The Connection becomes DISCONNECTED; its Socket is closed.
ConnDisconnected ==
    /\ ~cdisc
    /\ cdisc' = TRUE
    /\ csock' = FALSE
    /\ UNCHANGED <<cq, cinflight, cwritten, csent, cfails>>
    /\ UNCHANGED <<hubVars, voVars, auxVars>>

NextSend ==
    \/ Send
    \/ PumpPop
    \/ WriteDone
    \/ WriteFailed
    \/ SocketDetach
    \/ SocketAttach
    \/ ConnDisconnected

\* ------------------------------------------------------ Flash policy listener

\* The length of the request the listener reads (line 119).
ReqLen == 20

\* The request the listener answers (line 124).
PolicyRequest ==
    <<"<", "p", "o", "l", "i", "c", "y", "-", "f", "i", "l", "e", "-",
      "r", "e", "q", "u", "e", "s", "t">>

\* The document as the sequence of its parts: the text before the elements,
\* one allow-access-from element per origin, the closing tag.
PolicyPart(tag, domain, ports) == [tag |-> tag, domain |-> domain, ports |-> ports]

PolicyHead == PolicyPart("cross-domain-policy", <<>>, <<>>)

PolicyFoot == PolicyPart("/cross-domain-policy", <<>>, <<>>)

\* The loop of generatePolicyFile from the origin i on (lines 78-92).
RECURSIVE PolicyElements(_, _)
PolicyElements(Origins, i) ==
    IF i > Len(Origins)
    THEN <<>>
    ELSE LET ps == Split(Origins[i], Colon, 2)
             host == IF ps[1] # <<>> THEN ps[1] ELSE Star
             port == IF Len(ps) = 2 /\ ps[2] # <<>> THEN ps[2] ELSE Star
         IN  (IF Len(ps) < 1
              THEN <<>>
              ELSE <<PolicyPart("allow-access-from", host, port)>>)
             \o PolicyElements(Origins, i + 1)

\* generatePolicyFile(sio), with sio.config.Origins as Origins.
generatePolicyFile(Origins) ==
    <<PolicyHead>>
    \o (IF Origins.nil THEN <<>> ELSE PolicyElements(Origins.list, 1))
    \o <<PolicyFoot>>

\* The origins the document is generated from: a host (or none), and a port
\* (or none) after a colon, or no colon at all.
FlashEntries ==
    {e \in [h : {<<>>, <<"a">>}, colon : BOOLEAN, p : {<<>>, P80}] :
        e.colon \/ e.p = <<>>}

FlashEntryString(e) == e.h \o (IF e.colon THEN Colon \o e.p ELSE <<>>)

FlashOrigins ==
    {NilSlice}
    \cup {SliceOf(l) : l \in UNION {[1..k -> FlashEntries] : k \in 0..MaxOrigins}}

\* What clients send: the request, the request and more,
\* the request with one byte changed, and every shorter beginning of it.
FlashInputs ==
    {PolicyRequest, PolicyRequest \o <<"/", ">">>}
    \cup {[PolicyRequest EXCEPT ![i] = "x"] : i \in 1..ReqLen}
    \cup {SubSeq(PolicyRequest, 1, k) : k \in 0..(ReqLen - 1)}

\* Line 124: bytes.Equal([]byte("<policy-file-request"), buf).
RequestMatches(buf) == buf = PolicyRequest

InitFlash ==
    /\ fpOrigins = NilSlice
    /\ fpPolicy = <<>>
    /\ fpPc = "init"
    /\ fpIn = <<>>
    /\ fpHeld = FALSE
    /\ fpNw = 0
    /\ fpOut = <<>>

\* ListenAndServeFlashPolicy(laddr) up to its loop (lines 99-107), on a Hub
\* whose config.Origins is origins.
FlashListen(origins) ==
    /\ fpPc = "init"
    /\ fpOrigins' = origins
    /\ fpPolicy' = generatePolicyFile([nil |-> origins.nil,
                                       list |-> [i \in 1..Len(origins.list) |->
                                                    FlashEntryString(origins.list[i])]])
    /\ fpPc' = "accept"
    /\ UNCHANGED <<fpIn, fpHeld, fpNw, fpOut>>
    /\ UNCHANGED <<hubVars, voVars, sendVars, attachVars>>

\* io.ReadFull(conn, buf) returns: buf is full, or the client has closed its
\* side. No deadline is set on conn.
ReadReturns == Len(fpIn) >= ReqLen \/ ~fpHeld

\* listener.Accept returns the connection of a client that sends input and
\* then keeps the connection open (held) or closes it, and the goroutine for
\* it starts (lines 110-119). The loop accepts the next client whatever the
\* goroutine of the one before does; the variables follow the newest one
\* once the one before is closed or its goroutine waits in ReadFull.
FlashAccept(input, held) ==
    /\ \/ fpPc \in {"accept", "closed"}
       \/ fpPc = "read" /\ ~ReadReturns
    /\ fpIn' = input
    /\ fpHeld' = held
    /\ fpNw' = 0
    /\ fpOut' = <<>>
    /\ fpPc' = "read"
    /\ UNCHANGED <<fpOrigins, fpPolicy>>
    /\ UNCHANGED <<hubVars, voVars, sendVars, attachVars>>

\* io.ReadFull(conn, buf) and the comparison (lines 120-127): an error when
\* the client closes before ReqLen bytes, and conn.Close (line 117) unless
\* the request is the expected one.
FlashRead ==
    /\ fpPc = "read"
    /\ ReadReturns
    /\ fpPc' = IF Len(fpIn) >= ReqLen /\ RequestMatches(SubSeq(fpIn, 1, ReqLen))
               THEN "write"
               ELSE "closed"
    /\ UNCHANGED <<fpOrigins, fpPolicy, fpIn, fpHeld, fpNw, fpOut>>
    /\ UNCHANGED <<hubVars, voVars, sendVars, attachVars>>

\* One round of the write loop (lines 130-143): conn.Write(policy[nw:])
\* wrote n parts and returned err.
FlashWrite(n, err) ==
    /\ fpPc = "write"
    /\ n <= Len(fpPolicy) - fpNw
    /\ fpOut' = fpOut \o SubSeq(fpPolicy, fpNw + 1, fpNw + n)
    /\ IF err = "error"
       THEN fpPc' = "closed" /\ fpNw' = fpNw
       ELSE IF n > 0
       THEN /\ fpNw' = fpNw + n
            /\ fpPc' = IF fpNw + n < Len(fpPolicy) THEN "write" ELSE "closed"
       ELSE fpPc' = "closed" /\ fpNw' = fpNw
    /\ UNCHANGED <<fpOrigins, fpPolicy, fpIn, fpHeld>>
    /\ UNCHANGED <<hubVars, voVars, sendVars, attachVars>>

\* ------------------------------------------------ one Connection's attachment

Sockets == 1..MaxSockets

InitAttach ==
    /\ asocket = 0
    /\ astate = [k \in Sockets |-> "new"]
    /\ amutex = 0
    /\ apumps = {}

\* An attach that installs the new Socket without closing the prior one.
KeepPrior(st, prior) == st

\* The Sockets' states after the prior Socket (0: none) was closed.
ClosePrior(st, prior) ==
    IF prior = 0 THEN st ELSE [st EXCEPT ![prior] = "closed"]

\* Conn.handle with the Socket k of a new request: already-attached when
\* another attach is in progress; else it takes the attachment mutex and
\* closes the Socket that is attached.
AttachBegin(k) ==
    /\ astate[k] = "new"
    /\ IF amutex # 0
       THEN /\ astate' = [astate EXCEPT ![k] = "closed"]
            /\ UNCHANGED <<asocket, amutex, apumps>>
       ELSE /\ amutex' = k
            /\ astate' = [ClosePrior(astate, asocket) EXCEPT ![k] = "attaching"]
            /\ asocket' = 0
            /\ UNCHANGED apumps
    /\ UNCHANGED <<hubVars, voVars, sendVars, flashVars>>

\* The read and write pumps of a closed Socket observe its termination.
PumpsExit(k) ==
    /\ k \in apumps
    /\ astate[k] = "closed"
    /\ apumps' = apumps \ {k}
    /\ UNCHANGED <<asocket, astate, amutex>>
    /\ UNCHANGED <<hubVars, voVars, sendVars, flashVars>>

\* accept succeeded and the prior pumps are gone: the Socket is installed,
\* its pumps start, the mutex is released.
AttachInstall(k) ==
    /\ amutex = k
    /\ apumps = {}
    /\ asocket' = k
    /\ astate' = [astate EXCEPT ![k] = "open"]
    /\ apumps' = {k}
    /\ amutex' = 0
    /\ UNCHANGED <<hubVars, voVars, sendVars, flashVars>>

\* accept failed: nothing is installed, the mutex is released.
AttachFail(k) ==
    /\ amutex = k
    /\ astate' = [astate EXCEPT ![k] = "closed"]
    /\ amutex' = 0
    /\ UNCHANGED <<asocket, apumps>>
    /\ UNCHANGED <<hubVars, voVars, sendVars, flashVars>>

\* The exchange of the attached Socket ends: the Connection is DETACHED.
SocketEnds(k) ==
    /\ astate[k] = "open"
    /\ astate' = [astate EXCEPT ![k] = "closed"]
    /\ asocket' = IF asocket = k THEN 0 ELSE asocket
    /\ UNCHANGED <<amutex, apumps>>
    /\ UNCHANGED <<hubVars, voVars, sendVars, flashVars>>

\* ------------------------------------------------------------ specification

Init ==
    /\ muxed = FALSE
    /\ handlers = {}
    /\ sessions = [k \in {} |-> NoConn]
    /\ cstate = [c \in IDPool |-> "NONE"]
    /\ pendingDisc = {}
    /\ hubDisc = {}
    /\ req = [s \in Slots |-> IdleReq]
    /\ last = NoResp
    /\ bc = IdleBc
    /\ callbacks = NoCallbacks
    /\ ret = NoRet
    /\ wlock = NoHolder
    /\ discCb = {}
    /\ fired = [c \in IDPool |-> NoneFired]
    /\ timedOut = {}
    /\ voList = NilSlice
    /\ voUrl = NoOrigin
    /\ voRes = NoResult
    /\ InitSend
    /\ InitFlash
    /\ InitAttach

Next ==
    \/ \E resource \in MuxResources : Mux(resource)
    \/ \E s \in RouteSlots, R \in Prefixes, r \in Requests : handle(s, R, r)
    \/ Respond
    \/ \E s \in Slots : ConnHandle(s)
    \/ \E s \in Slots : onConnect(s)
    \/ \E c \in IDPool : Detach(c)
    \/ \E c \in IDPool : Disconnect(c)
    \/ \E c \in IDPool : onDisconnect(c)

Spec == Init /\ [][Next]_vars

\* The origin check alone, on every allow-list of up to MaxOrigins entries
\* (and on a nil one) and every origin of TestOrigins.
RECURSIVE ListsUpTo(_)
ListsUpTo(n) ==
    IF n = 0
    THEN {<<>>}
    ELSE ListsUpTo(n - 1)
         \cup {Append(l, e) : l \in {m \in ListsUpTo(n - 1) : Len(m) = n - 1},
                               e \in Entries}

InitOrigin ==
    /\ muxed = FALSE
    /\ handlers = {}
    /\ sessions = [k \in {} |-> NoConn]
    /\ cstate = [c \in IDPool |-> "NONE"]
    /\ pendingDisc = {}
    /\ hubDisc = {}
    /\ req = [s \in Slots |-> IdleReq]
    /\ last = NoResp
    /\ bc = IdleBc
    /\ callbacks = NoCallbacks
    /\ ret = NoRet
    /\ wlock = NoHolder
    /\ discCb = {}
    /\ fired = [c \in IDPool |-> NoneFired]
    /\ timedOut = {}
    /\ voList \in {SliceOf(l) : l \in ListsUpTo(MaxOrigins)} \cup {NilSlice}
    /\ voUrl \in TestOrigins
    /\ voRes = NoResult
    /\ InitSend
    /\ InitFlash
    /\ InitAttach

\* A call of verifyOrigin(reqOrigin) with config.Origins = voList.
VerifyOriginCall ==
    /\ ~voRes.set
    /\ voRes' =
          LET r == verifyOrigin([nil |-> voList.nil,
                                 list |-> [i \in 1..Len(voList.list) |->
                                              EntryString(voList.list[i])]],
                                OriginURL(voUrl))
          IN  [set |-> TRUE, o |-> r.o, ok |-> r.ok]
    /\ UNCHANGED <<voList, voUrl>>
    /\ UNCHANGED <<hubVars, sendVars, auxVars>>

SpecOrigin == InitOrigin /\ [][VerifyOriginCall]_vars

\* One Connection's Send, write pump and Sockets.
SpecSend == Init /\ [][NextSend]_vars

\* Several requests at a time, Broadcast and BroadcastExcept among them.
NextConc ==
    \/ \E resource \in ConcMuxResources : ~muxed /\ Mux(resource)
    \/ \E s \in Slots, R \in Prefixes, r \in ConcRequests : handle(s, R, r)
    \/ Respond
    \/ \E s \in Slots : ConnHandle(s)
    \/ \E s \in Slots : onConnect(s)
    \/ \E c \in IDPool : Detach(c)
    \/ \E c \in IDPool : Disconnect(c)
    \/ \E c \in IDPool : onDisconnect(c)
    \/ \E c \in IDPool \cup {NoConn} : BroadcastExcept(c)
    \/ BroadcastStep
    \/ BroadcastReturn

SpecConc == Init /\ [][NextConc]_vars

\* The configuration methods alone: Mux, OnConnect, OnDisconnect and OnMessage
\* called in any order, with any resource and any function or nil.
NextApi ==
    \/ \E resource \in MuxResources : Mux(resource)
    \/ \E f \in Funcs \cup {"nil"} : OnConnect(f)
    \/ \E f \in Funcs \cup {"nil"} : OnDisconnect(f)
    \/ \E f \in Funcs \cup {"nil"} : OnMessage(f)

SpecApi == Init /\ [][NextApi]_vars

\* The requests of the lifecycle runs: a GET for a new Connection and a GET
\* for each session id, on the first transport.
LifeRequests ==
    {Request("GET", NoHeader, Transports[1], comps, FALSE) :
        comps \in {<<>>} \cup {<<id>> : id \in IDPool}}

\* The user installs callbacks before Mux, or leaves them out.
Setup ==
    /\ ~muxed
    /\ \/ OnConnect("f")
       \/ OnDisconnect("f")
       \/ OnMessage("f")

\* Connections from their creation to the on-disconnect callback, with the
\* user's callbacks installed: one request at a time, interleaved with the
\* detaches, timeouts, disconnects and messages of the Connections' own
\* goroutines and with a broadcast.
NextLife ==
    \/ Setup
    \/ \E resource \in ConcMuxResources : ~muxed /\ Mux(resource)
    \/ \E s \in RouteSlots, R \in Prefixes, r \in LifeRequests : handle(s, R, r)
    \/ Respond
    \/ \E s \in Slots : ConnHandle(s)
    \/ \E s \in Slots : onConnect(s)
    \/ \E s \in Slots : onConnectCallback(s)
    \/ \E c \in IDPool : Detach(c)
    \/ \E c \in IDPool : Disconnect(c)
    \/ \E c \in IDPool : Timeout(c)
    \/ \E c \in IDPool : onDisconnect(c)
    \/ \E c \in IDPool : onDisconnectCallback(c)
    \/ \E c \in IDPool : onMessage(c)
    \/ \E c \in IDPool \cup {NoConn} : BroadcastExcept(c)
    \/ BroadcastStep
    \/ BroadcastReturn

SpecLife == Init /\ [][NextLife]_vars

\* The policy listener: one client after the other.
NextFlash ==
    \/ \E origins \in FlashOrigins : FlashListen(origins)
    \/ \E input \in FlashInputs, held \in BOOLEAN : FlashAccept(input, held)
    \/ FlashRead
    \/ \E n \in 0..(MaxOrigins + 2), err \in {"nil", "EAGAIN", "error"} : FlashWrite(n, err)

SpecFlash == Init /\ [][NextFlash]_vars

\* The requests for one session, each with its own Socket, at the same time.
NextAttach ==
    \/ \E k \in Sockets : AttachBegin(k)
    \/ \E k \in Sockets : PumpsExit(k)
    \/ \E k \in Sockets : AttachInstall(k)
    \/ \E k \in Sockets : AttachFail(k)
    \/ \E k \in Sockets : SocketEnds(k)

SpecAttach == Init /\ [][NextAttach]_vars

\* ================================================================== claims

\* The origin check of the Hub turns the request's Origin header away.
Rejected(origin) ==
    origin.present /\ ~verifyOrigin(HubOrigins, origin.url).ok

\* The request that completed in the last step was a GET or a POST that the
\* origin check let through.
RoutedGetPost(resp) ==
    /\ resp.kind = "resp"
    /\ resp.rq.method \in {"GET", "POST"}
    /\ ~Rejected(resp.rq.origin)

\* C1 (as claimed): no session id in the map maps to a Connection for which
\* onDisconnect has run, GetConn finds no such Connection, and a GET or POST
\* that arrives for a session id after onDisconnect has run for it is answered
\* 400.
C1_DisconnectedIsGone ==
    /\ \A k \in DOMAIN sessions : sessions[k] \notin hubDisc
    /\ \A c \in hubDisc : GetConn(c) = NoConn
    /\ (RoutedGetPost(last) /\ last.rq.late) => last.status = 400

\* The first two parts of C1 alone: they hold; the third is what fails.
C1_MapPart ==
    /\ \A k \in DOMAIN sessions : sessions[k] \notin hubDisc
    /\ \A c \in hubDisc : GetConn(c) = NoConn

\* C5 (as claimed): a GET or POST to R + r + "/" + S, with at most one more
\* component or a trailing slash, for a session id S in the map, is passed to
\* the Connection registered under S with the transport r, and creates no
\* Connection.
C5_DispatchedToSession ==
    (RoutedGetPost(last) /\ last.rq.known)
        => /\ last.handled = last.rq.addr
           /\ last.t = last.rq.reqT
           /\ ~last.created

\* C6 (as claimed): a GET or POST whose first component after the resource is
\* a session id that is not in the map is answered 400, creates no Connection,
\* changes nothing in the map and reaches no Connection's handle.
C6_UnknownSession400 ==
    (RoutedGetPost(last) /\ last.rq.addr # NoConn /\ ~last.rq.known)
        => /\ last.status = 400
           /\ ~last.created
           /\ ~last.inserted
           /\ last.handled = NoConn

\* C7: a request whose Origin header the allow-list does not match is
\* answered 401 whatever its method and path, with no CORS header, no
\* Connection created or looked up, no Connection's handle called, and the
\* session map, the Connections and the requests in flight left as they were.
C7_UnauthorizedOrigin401 ==
    [][(last'.kind = "resp" /\ Rejected(last'.rq.origin))
          => /\ last'.status = 401
             /\ last'.headers = NoHeaders
             /\ ~last'.created
             /\ ~last'.lookedUp
             /\ last'.handled = NoConn
             /\ sessions' = sessions
             /\ cstate' = cstate
             /\ req' = req]_vars

\* C7's case: an OPTIONS request with an unauthorized Origin was answered 401.
C7_Witness ==
    /\ last.kind = "resp"
    /\ Rejected(last.rq.origin)
    /\ last.rq.method = "OPTIONS"
    /\ last.status = 401

\* C8 (as claimed): a request without an Origin header is answered 401 and
\* reaches no Connection, new or existing.
C8_MissingOrigin401 ==
    (last.kind = "resp" /\ ~last.rq.origin.present)
        => /\ last.status = 401
           /\ ~last.created
           /\ last.handled = NoConn

\* C8 (amended): a request without an Origin header skips the origin check:
\* it gets no CORS header and is answered by its method and path alone,
\* OPTIONS with 200, a method other than OPTIONS, GET and POST with 401, and a
\* GET or POST with 401 only when the Connection's handle it reached failed.
C8_MissingOriginRouted ==
    (last.kind = "resp" /\ ~last.rq.origin.present)
        => /\ last.headers = NoHeaders
           /\ last.rq.method = "OPTIONS" => last.status = 200
           /\ last.rq.method \notin {"OPTIONS", "GET", "POST"} => last.status = 401
           /\ (last.rq.method \in {"GET", "POST"} /\ last.status = 401)
                 => last.handled # NoConn

\* C8's case: a GET without an Origin header reached a new Connection, which
\* onConnect put into the map.
C8_Witness ==
    /\ last.kind = "resp"
    /\ ~last.rq.origin.present
    /\ last.rq.method = "GET"
    /\ last.created
    /\ last.inserted
    /\ last.status = 0

\* C10 (as claimed): an OPTIONS request that the origin check does not reject
\* is answered 200 with the three CORS headers, and reaches no Connection.
C10_OptionsAlwaysCors ==
    (last.kind = "resp" /\ last.rq.method = "OPTIONS" /\ ~Rejected(last.rq.origin))
        => /\ last.status = 200
           /\ last.headers.AllowOrigin.present
           /\ last.headers.AllowCredentials = "true"
           /\ last.headers.AllowMethods = "POST, GET"
           /\ ~last.created
           /\ last.handled = NoConn

\* C10 (amended): an OPTIONS request that the origin check does not reject is
\* answered 200 and reaches no Connection; the answer carries the three CORS
\* headers, the origin echoed, when the request has an Origin header, and none
\* of them when it has none.
C10_OptionsCorsWithOrigin ==
    (last.kind = "resp" /\ last.rq.method = "OPTIONS" /\ ~Rejected(last.rq.origin))
        => /\ last.status = 200
           /\ ~last.created
           /\ ~last.lookedUp
           /\ last.handled = NoConn
           /\ IF last.rq.origin.present
              THEN /\ last.headers.AllowOrigin = last.rq.origin
                   /\ last.headers.AllowCredentials = "true"
                   /\ last.headers.AllowMethods = "POST, GET"
              ELSE last.headers = NoHeaders

\* C10's case: an OPTIONS request with an admitted Origin was answered 200.
C10_Witness ==
    /\ last.kind = "resp"
    /\ last.rq.method = "OPTIONS"
    /\ last.rq.origin.present
    /\ ~Rejected(last.rq.origin)
    /\ last.status = 200
    /\ last.headers.AllowOrigin = last.rq.origin

\* The Connections the session map holds.
InMap == {sessions[k] : k \in DOMAIN sessions}

\* C2 (as claimed): every Connection that was created and is not DISCONNECTED
\* is in the session map under its session id.
C2_CreatedIsInMap ==
    \A c \in IDPool :
        cstate[c] \notin {"NONE", "DISCONNECTED"}
            => c \in DOMAIN sessions /\ sessions[c] = c

\* C2 (amended): every Connection that is established (onConnect has run for
\* it: ACTIVE or DETACHED) is in the session map under its session id, and the
\* map holds nothing else under that id; a Connection handle has just created
\* is not in the map before onConnect runs.
C2_EstablishedIsInMap ==
    \A c \in IDPool :
        /\ cstate[c] \in {"ACTIVE", "DETACHED"}
              => c \in DOMAIN sessions /\ sessions[c] = c
        /\ cstate[c] \in {"NONE", "HANDSHAKING"} => c \notin DOMAIN sessions

\* C2's case: one Connection is DETACHED and in the map while another has
\* been created by handle and is not yet in it.
C2_Witness ==
    \E c, d \in IDPool :
        /\ cstate[c] = "DETACHED"
        /\ c \in DOMAIN sessions
        /\ cstate[d] = "HANDSHAKING"
        /\ \E s \in Slots : req[s].pc = "onConnect" /\ req[s].c = d

\* C3: all through a BroadcastExcept(c, v) the session map is the one the call
\* found, Send(v) has been called at most once on any Connection, and only on
\* Connections of the map other than c; when the loop is over it has been
\* called exactly once on every Connection of the map other than c.
C3_BroadcastExactlyOnce ==
    bc.pc = "iter"
        => /\ InMap = bc.snap
           /\ \A v \in IDPool :
                 /\ bc.sends[v] <= 1
                 /\ bc.sends[v] = 1 => (v \in InMap /\ v # bc.except)
                 /\ v \in bc.visited
                       => bc.sends[v] = (IF v # bc.except THEN 1 ELSE 0)
           /\ DOMAIN sessions \ bc.visited = {}
                 => \A v \in IDPool :
                       bc.sends[v] = (IF v \in InMap /\ v # bc.except THEN 1 ELSE 0)

\* C3's case: BroadcastExcept(c, v) has gone through a map of two
\* Connections, c one of them, while the other, DISCONNECTED in the meantime,
\* waits for the lock to be taken out of the map.
C3_Witness ==
    /\ bc.pc = "iter"
    /\ Cardinality(InMap) = 2
    /\ bc.except \in InMap
    /\ DOMAIN sessions \ bc.visited = {}
    /\ \E v \in InMap : bc.sends[v] = 1 /\ v \in pendingDisc

\* The port an origin is compared by, as C9 has it: its own, or the one of
\* its scheme when it names none (NoPort: there is none to compare).
ComparedPort(x) ==
    IF x.p # NoPort THEN x.p
    ELSE IF x.scheme \in {"http", "ws"} THEN P80
    ELSE IF x.scheme \in {"https", "wss"} THEN P443
    ELSE NoPort

\* An entry matches an origin, as C9 has it.
EntryMatches(e, x) ==
    /\ e.h = Star \/ e.h = x.h
    /\ \/ e.p = NoPort
       \/ e.p = Star
       \/ ComparedPort(x) # NoPort /\ e.p = ComparedPort(x)

SomeEntryMatches(slice, x) ==
    \E i \in 1..Len(slice.list) : EntryMatches(slice.list[i], x)

\* C9 (as claimed): verifyOrigin accepts an origin that parses exactly when
\* some entry of the allow-list matches it.
C9_AcceptsIffMatches ==
    (voRes.set /\ ~voUrl.err) => (voRes.ok <=> SomeEntryMatches(voList, voUrl))

\* C9 (amended): verifyOrigin rejects an origin that does not parse or that
\* has neither host nor port, whatever the allow-list; it accepts any other
\* origin exactly when some entry of the allow-list matches it, a later entry
\* also after an earlier one failed on the port; a nil or empty allow-list
\* matches nothing.
C9_AcceptsIffMatchesWithHost ==
    voRes.set
        => IF voUrl.err \/ HostPort(voUrl.h, voUrl.p) = <<>>
           THEN ~voRes.ok
           ELSE voRes.ok <=> SomeEntryMatches(voList, voUrl)

\* C9's case: the first entry has the origin's host and another port, the
\* second the port of the origin's scheme, and the origin, which names no
\* port, is accepted.
C9_Witness ==
    /\ voRes.set
    /\ voRes.ok
    /\ Len(voList.list) = 2
    /\ voUrl.p = NoPort
    /\ voList.list[1].h = voUrl.h
    /\ ~EntryMatches(voList.list[1], voUrl)
    /\ voList.list[2].p = P80
    /\ voRes.o = EntryString(voList.list[2])

\* The messages on their way: the one being written, then the queue.
Pending == (IF cinflight = 0 THEN <<>> ELSE <<cinflight>>) \o cq

\* C4: the messages written to the Sockets are the first of the messages
\* passed to Send, in the order of the calls, each once; and until the
\* Connection is DISCONNECTED the rest of them is in the queue (or being
\* written) in that order, whatever detached, attached or failed in between.
C4_WrittenInSendOrder ==
    /\ Len(cwritten) <= Len(csent)
    /\ cwritten = SubSeq(csent, 1, Len(cwritten))
    /\ ~cdisc => cwritten \o Pending = csent

\* C4's case: writes have failed and Sockets were attached anew, two messages
\* are written, and the last one is back in the queue of the Connection,
\* DETACHED by the write of it that just failed.
C4_Witness ==
    /\ ~cdisc
    /\ ~csock
    /\ cfails = MaxFails
    /\ Len(csent) = MaxSends
    /\ Len(cwritten) = 2
    /\ cinflight = 0
    /\ cq = <<MaxSends>>

EndsWithSlash(resource) == resource # <<>> /\ resource[Len(resource)] = "/"

\* C12: Mux with an empty resource or one that does not end in a slash
\* returns an error, registers nothing and leaves the Hub un-muxed; Mux on a
\* muxed Hub returns an error and registers nothing; any other Mux returns no
\* error, makes the Hub muxed and registers, for each transport, exactly the
\* patterns resource+r and resource+r+"/", each bound to that transport.
C12_MuxRegistersOrFails ==
    [][\A resource \in MuxResources :
          Mux(resource) =>
             IF muxed
             THEN ret' = Ret("Mux", ret'.err) /\ ret'.err # ""
                  /\ handlers' = handlers /\ muxed'
             ELSE IF ~EndsWithSlash(resource)
             THEN ret' = Ret("Mux", ret'.err) /\ ret'.err # ""
                  /\ handlers' = handlers /\ ~muxed'
             ELSE /\ ret' = Ret("Mux", "")
                  /\ muxed'
                  /\ handlers' =
                        handlers
                        \cup {[pattern |-> resource \o Resource(Transports[i]) \o z,
                                t |-> Transports[i]] :
                                   i \in 1..Len(Transports), z \in {<<>>, Slash}}]_vars

\* Mux failed on a bad resource, then succeeded: two handlers per transport.
C12_Witness ==
    /\ muxed
    /\ ret = Ret("Mux", "")
    /\ Cardinality(handlers) = 2 * Len(Transports)
    /\ callbacks.onMessage = "f"

\* onConnect has stored the Connection c: it has been ACTIVE.
Established(c) == cstate[c] \in {"ACTIVE", "DETACHED", "DISCONNECTED"}

\* A request is inside handle with the Connection c.
Working(c) == \E s \in Slots : req[s].pc # "idle" /\ req[s].c = c

\* C13 (as claimed): with the callbacks installed, each is invoked at most
\* once per Connection, on-disconnect never before on-connect, and on-connect
\* once for every Connection that was created, as soon as the request that
\* created it is over.
C13_ExactlyOneOnConnect ==
    \A c \in IDPool :
        /\ fired[c].connect <= 1
        /\ fired[c].disconnect <= 1
        /\ callbacks.onConnect # "nil" =>
              /\ fired[c].disconnect = 1 => fired[c].connect = 1
              /\ (cstate[c] # "NONE" /\ ~Working(c)) => fired[c].connect = 1

\* C13 (amended): each callback is invoked at most once per Connection;
\* on-connect only for a Connection that onConnect has stored, and once for
\* each such Connection by the time its request is over; on-disconnect only
\* for a Connection that onDisconnect has removed, and once for each such
\* Connection by the time onDisconnect returns.
C13_AtMostOnceEach ==
    \A c \in IDPool :
        /\ fired[c].connect <= 1
        /\ fired[c].disconnect <= 1
        /\ fired[c].connect = 1 => Established(c)
        /\ fired[c].disconnect = 1 => c \in hubDisc
        /\ (callbacks.onConnect # "nil" /\ Established(c) /\ ~Working(c))
              => fired[c].connect = 1
        /\ (callbacks.onDisconnect # "nil" /\ c \in hubDisc \ discCb)
              => fired[c].disconnect = 1

\* A Connection was established, timed out, and both callbacks were invoked
\* for it.
C13_Witness ==
    \E c \in timedOut : fired[c].connect = 1 /\ fired[c].disconnect = 1

\* C14 (as claimed): a Connection that timed out while DETACHED has its
\* on-disconnect callback invoked at most once, is gone from the map once
\* onDisconnect has run, and a GET that arrives for its session id after that
\* is answered 400.
C14_TimedOutIsGone ==
    /\ \A c \in timedOut :
          /\ fired[c].disconnect <= 1
          /\ c \in hubDisc => GetConn(c) = NoConn
    /\ (/\ last.kind = "resp"
        /\ last.rq.method = "GET"
        /\ last.rq.addr \in timedOut
        /\ last.rq.late) => last.status = 400

\* The parts of C14 about the callback and the map alone: they hold.
C14_MapPart ==
    \A c \in timedOut :
        /\ fired[c].disconnect <= 1
        /\ c \in hubDisc => GetConn(c) = NoConn
        /\ (callbacks.onDisconnect # "nil" /\ c \in hubDisc \ discCb)
              => fired[c].disconnect = 1

\* C16: the write lock is never held from one step to the next, so never
\* while a callback runs; the goroutine that invokes a user callback does not
\* hold it; and no step of BroadcastExcept, which holds the read lock, invokes
\* a user callback.
C16_NoCallbackUnderLock ==
    [][/\ ~WLocked'
       /\ last'.cb.kind # "none" => ~last'.cb.locked
       /\ bc' # bc => last'.cb.kind = "none"]_vars

\* All three callbacks have run, the last one while another goroutine was
\* inside BroadcastExcept.
C16_Witness ==
    /\ last.cb.kind = "message"
    /\ ~last.cb.locked
    /\ RLocked
    /\ \E c \in IDPool : fired[c].connect = 1
    /\ \E c \in IDPool : fired[c].disconnect = 1

\* C18 (as claimed): the Connection that handle looked up and passed the
\* exchange to is in the session map when c.handle returns.
C18_NeverHandlesRemoved ==
    (last.kind = "resp" /\ last.lookedUp /\ last.handled # NoConn)
        => last.handled \in DOMAIN sessions

\* C18 (amended): the Connection that handle looked up and passed the
\* exchange to was in the session map at the lookup: it is still there, or
\* onDisconnect has removed it since, and then c.handle failed and the answer
\* is 401.
C18_HandlesLookedUp ==
    (last.kind = "resp" /\ last.lookedUp /\ last.handled # NoConn)
        => /\ last.handled \in DOMAIN sessions \cup hubDisc
           /\ last.handled \notin DOMAIN sessions => last.status = 401

\* The exchange was passed to a Connection that onDisconnect had removed
\* after the lookup.
C18_Witness ==
    /\ last.kind = "resp"
    /\ last.lookedUp
    /\ last.handled \in hubDisc
    /\ last.rq.known
    /\ last.status = 401

\* C19 (as claimed): the Connection is in the session map when its
\* on-connect callback is invoked, and not when its on-disconnect callback is.
C19_MapUpdatedAtCallback ==
    /\ last.cb.kind = "connect" => last.cb.inMap
    /\ last.cb.kind = "disconnect" => ~last.cb.inMap

\* C19 (amended): onConnect has stored the Connection before its on-connect
\* callback is invoked, so it is in the map then unless onDisconnect has
\* removed it already; onDisconnect has removed it before its on-disconnect
\* callback is invoked, and it is never in the map then.
C19_MapUpdatedBeforeCallback ==
    /\ last.cb.kind = "connect" => (last.cb.inMap \/ last.cb.c \in hubDisc)
    /\ last.cb.kind = "disconnect" => (~last.cb.inMap /\ last.cb.c \in hubDisc)
    /\ \A s \in Slots :
          req[s].pc = "onConnectCallback" => req[s].c \in DOMAIN sessions \cup hubDisc
    /\ \A c \in discCb : GetConn(c) = NoConn

\* The on-connect callback ran for a Connection that was already removed.
C19_Witness ==
    /\ last.cb.kind = "connect"
    /\ ~last.cb.inMap
    /\ last.cb.c \in hubDisc

\* The client's first ReqLen bytes are the policy request.
SentRequest == Len(fpIn) >= ReqLen /\ SubSeq(fpIn, 1, ReqLen) = PolicyRequest

\* The document the claim describes: one element per configured origin, in
\* order, each with its host and its port, "*" for one that is empty or
\* left out.
ExpectedPolicy(origins) ==
    <<PolicyHead>>
    \o [i \in 1..Len(origins.list) |->
           PolicyPart("allow-access-from",
                      IF origins.list[i].h = <<>> THEN Star ELSE origins.list[i].h,
                      IF origins.list[i].colon /\ origins.list[i].p # <<>>
                      THEN origins.list[i].p ELSE Star)]
    \o <<PolicyFoot>>

\* What holds of C15: a client receives something only if its first 20
\* bytes are the policy request, and then a beginning of the document, never
\* more than the document, and the whole document when the write loop has run
\* to its end; once the server has read a request that is anything else, the
\* client has received nothing and its connection is closed; the document has
\* one allow-access-from element per configured origin, in order, with "*"
\* for an empty or absent host or port.
C15_SafetyPart ==
    /\ fpOut # <<>> => SentRequest
    /\ Len(fpOut) <= Len(fpPolicy) /\ fpOut = SubSeq(fpPolicy, 1, Len(fpOut))
    /\ (fpPc = "closed" /\ fpNw = Len(fpPolicy)) => fpOut = fpPolicy
    /\ (fpPc \in {"write", "closed"} /\ ~SentRequest)
          => (fpPc = "closed" /\ fpOut = <<>>)
    /\ fpPc # "init" => fpPolicy = ExpectedPolicy(fpOrigins)

\* C15: on the policy listener a client receives the document, in full and
\* once, only if its first 20 bytes are the policy request; a connection that
\* sends anything else receives nothing and is closed by the server, that is,
\* it is closed or the server's goroutine for it can still take the step
\* that closes it; the document has one element per configured origin.
C15_OthersAreClosed ==
    /\ C15_SafetyPart
    /\ (fpPc \notin {"init", "accept"} /\ fpIn # <<>> /\ ~SentRequest)
          => (fpPc = "closed" \/ (fpPc = "read" /\ ReadReturns))

\* The Sockets that are attached: accepted, installed, and not closed.
Attached == {k \in Sockets : astate[k] = "open"}

\* C17: at most one Socket is attached, and it is the one in the
\* Connection's slot; at most one Socket's pumps run beside those of the
\* attached one; while a request holds the attachment mutex no Socket is
\* attached, so the prior one is closed before the new one is installed.
C17_OneAttachedSocket ==
    /\ Cardinality(Attached) <= 1
    /\ Attached = IF asocket = 0 THEN {} ELSE {asocket}
    /\ amutex # 0 => Attached = {}
    /\ Cardinality(apumps) <= 1

\* A request attached while a Socket was attached: the prior Socket is
\* closed, the new one is attached, and a third request that came during the
\* attach was turned away.
C17_Witness ==
    /\ astate[1] = "closed"
    /\ astate[2] = "open"
    /\ astate[3] = "closed"
    /\ asocket = 2
    /\ apumps = {2}

====
